---- MODULE Spec2Model ----
(***************************************************************************)
(* Model of the InteractiveCanvas component                                *)
(* (src/components/InteractiveCanvas.tsx): its mount effect, the two       *)
(* asynchronous set-up functions initVision and startCamera, the resize    *)
(* handler, the per-frame main loop animate, and the effect's cleanup.     *)
(*                                                                         *)
(* JavaScript numbers are modelled as exact rationals [n, d] in lowest     *)
(* terms (real arithmetic, no floating-point rounding).  Math.sqrt is      *)
(* exact on the perfect squares the input sets are built from.             *)
(***************************************************************************)
EXTENDS Integers, Sequences, FiniteSets, TLC

(***************************************************************************)
(* Bounds of the model.                                                    *)
(***************************************************************************)
\* calls of animate explored in one behaviour
MaxTicks == 3

(***************************************************************************)
(* Exact rational arithmetic.                                              *)
(***************************************************************************)
Abs(i) == IF i < 0 THEN -i ELSE i

RECURSIVE GCD(_, _)
GCD(a, b) == IF b = 0 THEN a ELSE GCD(b, a % b)

\* the rational n/d (d # 0) in lowest terms with a positive denominator
Rat(n, d) ==
  LET g == GCD(Abs(n), Abs(d))
      s == IF d < 0 THEN -1 ELSE 1
  IN  [n |-> s * (n \div g), d |-> s * (d \div g)]

R(i) == [n |-> i, d |-> 1]

RAdd(a, b) ==
  LET g == GCD(a.d, b.d)
  IN  Rat(a.n * (b.d \div g) + b.n * (a.d \div g), (a.d \div g) * b.d)

RNeg(a) == [n |-> -a.n, d |-> a.d]

RSub(a, b) == RAdd(a, RNeg(b))

RMul(a, b) ==
  LET g1 == GCD(Abs(a.n), b.d)
      g2 == GCD(Abs(b.n), a.d)
  IN  Rat((a.n \div g1) * (b.n \div g2), (a.d \div g2) * (b.d \div g1))

\* a / b for b # 0
RDiv(a, b) == RMul(a, Rat(b.d, b.n))

RLt(a, b) == RSub(a, b).n < 0

RLe(a, b) == RSub(a, b).n <= 0

RMax(a, b) == IF RLt(a, b) THEN b ELSE a

RMin(a, b) == IF RLt(b, a) THEN b ELSE a

RAbs(a) == [n |-> Abs(a.n), d |-> a.d]

RECURSIVE RPow(_, _)
RPow(a, k) == IF k = 0 THEN R(1) ELSE RMul(a, RPow(a, k - 1))

\* Math.pow(a, 2)
RSq(a) == RMul(a, a)

\* integer square root of a perfect square
ISqrt(m) == CHOOSE r \in 0..m : r * r = m

\* Math.sqrt on a rational whose numerator and denominator are perfect squares
RSqrt(a) == [n |-> ISqrt(a.n), d |-> ISqrt(a.d)]

(***************************************************************************)
(* Program constants.                                                      *)
(***************************************************************************)
\* CONFIG.SMOOTHING_FACTOR = 0.15
SMOOTHING_FACTOR == Rat(15, 100)

\* CONFIG.COMPRESSION_FACTOR = 0.7
COMPRESSION_FACTOR == Rat(7, 10)

\* CONFIG.SPHERE_RADIUS = 1.5
SPHERE_RADIUS == Rat(15, 10)

\* camera.position.z = 8
CAMERA_Z == 8

\* tan(75 degrees / 2) = 0.7673..., the half-height of the view frustum at
\* distance 1 (PerspectiveCamera(75, ...)), to three decimals as 23/30
TanHalfFov == Rat(23, 30)

\* window.innerWidth / window.innerHeight, as seen at mount and on resize
Aspects == {Rat(3, 2), Rat(3, 4)}

Origin == [x |-> R(0), y |-> R(0), z |-> R(0)]

(***************************************************************************)
(* Landmarks.  A hand is a function from the landmark indices the code     *)
(* reads (0 wrist, 9 middle-finger base, 4 8 12 16 20 fingertips) to       *)
(* normalized screen points; coordinates are given in hundredths.          *)
(***************************************************************************)
Pt(x, y) == [x |-> Rat(x, 100), y |-> Rat(y, 100)]

\* a hand with the wrist at (wx, wy), landmark 9 at offset s from the wrist
\* and the five fingertips at the offsets t[1..5] from the wrist
Hand(wx, wy, s, t) ==
  (0 :> Pt(wx, wy)) @@ (9 :> Pt(wx + s[1], wy + s[2])) @@
  (4 :> Pt(wx + t[1][1], wy + t[1][2])) @@ (8 :> Pt(wx + t[2][1], wy + t[2][2])) @@
  (12 :> Pt(wx + t[3][1], wy + t[3][2])) @@ (16 :> Pt(wx + t[4][1], wy + t[4][2])) @@
  (20 :> Pt(wx + t[5][1], wy + t[5][2]))

\* five fingertips all at distance r straight above the wrist
Tips(r) == <<<<0, -r>>, <<0, -r>>, <<0, -r>>, <<0, -r>>, <<0, -r>>>>

\* hands of scale 0.2 whose landmark 9 is at (x, y)
OpenHand(x, y) == Hand(x, y + 20, <<0, -20>>, Tips(40))
HalfHand(x, y) == Hand(x, y + 20, <<0, -20>>, Tips(24))
Fist(x, y) == Hand(x, y + 20, <<0, -20>>, Tips(10))

\* what detectForVideo may return in results.landmarks (numHands: 2)
Detections ==
  { <<>>,
    <<OpenHand(30, 25)>>,
    <<Fist(30, 25)>>,
    <<HalfHand(70, 75)>>,
    <<Fist(10, 25), Fist(90, 25)>>,
    <<OpenHand(30, 25), Fist(70, 25)>>,
    <<OpenHand(48, 75), OpenHand(52, 75)>> }

(***************************************************************************)
(* Math helpers.                                                           *)
(***************************************************************************)
\* Math.sqrt(Math.pow(p.x - q.x, 2) + Math.pow(p.y - q.y, 2))
dist2D(p, q) == RSqrt(RAdd(RSq(RSub(p.x, q.x)), RSq(RSub(p.y, q.y))))

\* hand scale: wrist to middle-finger base
scaleBase(landmarks) == dist2D(landmarks[9], landmarks[0])

\* average distance from the five fingertips to the wrist
avgDist(landmarks) ==
  LET wrist == landmarks[0]
      tips == <<landmarks[4], landmarks[8], landmarks[12], landmarks[16], landmarks[20]>>
      totalDist == RAdd(RAdd(RAdd(RAdd(dist2D(tips[1], wrist), dist2D(tips[2], wrist)),
                                  dist2D(tips[3], wrist)), dist2D(tips[4], wrist)),
                        dist2D(tips[5], wrist))
  IN  RDiv(totalDist, R(5))

\* rawGrip of calculateGrip
rawGrip(landmarks) ==
  RSub(R(1), RDiv(RSub(RDiv(avgDist(landmarks), scaleBase(landmarks)), Rat(6, 10)),
                  Rat(12, 10)))

\* calculateGrip returning rawGrip without the clamp to [0, 1]
calculateGrip_unclamped(landmarks) == rawGrip(landmarks)

\* calculateGrip without the "1 -": open hand 1, closed fist 0
calculateGrip_inverted(landmarks) ==
  RMax(R(0), RMin(R(1), RSub(R(1), rawGrip(landmarks))))

calculateGrip(landmarks) == RMax(R(0), RMin(R(1), rawGrip(landmarks)))

\* The point of the camera's view ray through the screen point at depth
\* depthZ.  vec.unproject(camera) puts the NDC point on the ray whose
\* direction is (ndcX * tan(fov/2) * aspect, ndcY * tan(fov/2), -1); the
\* ray is then cut with the plane z = depthZ.
mapScreenToWorld(screenX, screenY, depthZ, asp) ==
  LET ndcX == RSub(RMul(RSub(R(1), screenX), R(2)), R(1))
      ndcY == RAdd(RMul(RNeg(screenY), R(2)), R(1))
      distance == RSub(R(CAMERA_Z), depthZ)
  IN  [x |-> RMul(RMul(RMul(ndcX, TanHalfFov), asp), distance),
       y |-> RMul(RMul(ndcY, TanHalfFov), distance),
       z |-> depthZ]

\* THREE.Vector3.lerp: this += (v - this) * alpha, per coordinate
lerp(v, target, alpha) ==
  [x |-> RAdd(v.x, RMul(RSub(target.x, v.x), alpha)),
   y |-> RAdd(v.y, RMul(RSub(target.y, v.y), alpha)),
   z |-> RAdd(v.z, RMul(RSub(target.z, v.z), alpha))]

\* smoothing that adds target * factor, without subtracting the state
smooth_forgetsState(value, target) == RAdd(value, RMul(target, SMOOTHING_FACTOR))

\* state += (target - state) * CONFIG.SMOOTHING_FACTOR
smooth(value, target) == RAdd(value, RMul(RSub(target, value), SMOOTHING_FACTOR))

(***************************************************************************)
(* State.                                                                  *)
(***************************************************************************)
VARIABLES
  lifecycle,          \* "rendered" (effect not yet run), "mounted", "unmounted"
  videoRef,           \* videoRef.current: "video" or "null"
  sceneRef,           \* sceneRef.current: "scene" or "null"
  aspect,             \* cameraRef.current.aspect
  resizeListener,     \* handleResize is registered on window
  handLandmarkerRef,  \* handLandmarkerRef.current: "landmarker" or "null"
  vision,             \* where initVision stands
  camera,             \* where startCamera stands
  getUserMediaCalls,  \* calls of navigator.mediaDevices.getUserMedia
  errorLog,           \* calls of console.error
  requestRef,         \* requestRef.current: id of the last requested frame
  rafQueue,           \* frame callbacks requested and neither run nor cancelled
  videoTime,          \* videoRef.current.currentTime, in frames
  lastTimeRef,        \* lastTimeRef.current
  physicsState,       \* physicsState.current
  sphere,             \* mainSphereRef.current: position and rotation
  loading,            \* React state loading
  handData,           \* React state handData: the snapshot the HUD renders
  ticks,              \* history: calls of animate so far
  last,               \* history: the locals of the last call of animate
  published,          \* history: every snapshot passed to setHandData
  run,                \* history: the current run of ticks with one target
  probe               \* inputs and result of a pure function under test

vars ==
  <<lifecycle, videoRef, sceneRef, aspect, resizeListener, handLandmarkerRef,
    vision, camera, getUserMediaCalls, errorLog, requestRef, rafQueue,
    videoTime, lastTimeRef, physicsState, sphere, loading, handData, ticks,
    last, published, run, probe>>

\* useRef({position: new THREE.Vector3(0, 0, 0), splitFactor: 0, ...})
InitialPhysics ==
  [position |-> Origin, splitFactor |-> R(0), gripStrength |-> R(0),
   rotationSpeed |-> Rat(5, 1000), time |-> R(0)]

\* useState<HandData>({gesture: HandGesture.NONE, ...}); worldPosition holds
\* a reference: to the object literal of the initial value, or to the
\* Vector3 physicsState.current.position
InitialHandData ==
  [gesture |-> "NONE",
   position |-> [x |-> Rat(5, 10), y |-> Rat(5, 10)],
   worldPosition |-> [ref |-> "literal", x |-> R(0), y |-> R(0)],
   isPresent |-> FALSE,
   trackingMode |-> "NONE",
   handSeparation |-> R(0),
   gripStrength |-> R(0),
   energyOutput |-> R(0)]

\* what a reader of snapshot snap sees while the Vector3 holds pos
ViewOf(snap, pos) ==
  [snap EXCEPT !.worldPosition =
     IF snap.worldPosition.ref = "literal"
       THEN [x |-> snap.worldPosition.x, y |-> snap.worldPosition.y]
       ELSE pos]

\* what the HUD sees now through snapshot snap
View(snap) == ViewOf(snap, physicsState.position)

NoLocals ==
  [ran |-> FALSE, detected |-> FALSE, isPresent |-> FALSE, trackingMode |-> "NONE",
   targetPos |-> Origin, targetGrip |-> R(0), targetSplit |-> R(0),
   before |-> InitialPhysics]

NoRun ==
  [n |-> 0,
   target |-> [position |-> Origin, gripStrength |-> R(0), splitFactor |-> R(0)],
   start |-> [position |-> Origin, gripStrength |-> R(0), splitFactor |-> R(0)]]

NoProbe == [kind |-> "none"]

ComponentInit ==
  /\ lifecycle = "rendered"
  /\ videoRef = "video"
  /\ sceneRef = "null"
  /\ aspect = R(1)
  /\ resizeListener = FALSE
  /\ handLandmarkerRef = "null"
  /\ vision = "idle"
  /\ camera = "idle"
  /\ getUserMediaCalls = 0
  /\ errorLog = 0
  /\ requestRef = 0
  /\ rafQueue = {}
  /\ videoTime = 0
  /\ lastTimeRef = 0
  /\ physicsState = InitialPhysics
  /\ sphere = [position |-> Origin, rotationY |-> R(0), rotationZ |-> R(0)]
  /\ loading = TRUE
  /\ handData = InitialHandData
  /\ ticks = 0
  /\ last = NoLocals
  /\ published = <<>>
  /\ run = NoRun

Init == ComponentInit /\ probe = NoProbe

componentVars ==
  <<lifecycle, videoRef, sceneRef, aspect, resizeListener, handLandmarkerRef,
    vision, camera, getUserMediaCalls, errorLog, requestRef, rafQueue,
    videoTime, lastTimeRef, physicsState, sphere, loading, handData, ticks,
    last, published, run>>

(***************************************************************************)
(* Mount, set-up, resize and teardown.                                     *)
(***************************************************************************)
\* the effect body: initThree(), initVision() and startCamera() up to their
\* first await, and addEventListener('resize', handleResize)
Mount ==
  /\ lifecycle = "rendered"
  /\ lifecycle' = "mounted"
  /\ sceneRef' = "scene"
  /\ \E a \in Aspects : aspect' = a
  /\ vision' = "forVisionTasks"
  /\ camera' = "getUserMedia"
  /\ getUserMediaCalls' = getUserMediaCalls + 1
  /\ resizeListener' = TRUE
  /\ UNCHANGED <<videoRef, handLandmarkerRef, errorLog, requestRef, rafQueue,
                 videoTime, lastTimeRef, physicsState, sphere, loading, handData,
                 ticks, last, published, run, probe>>

\* await FilesetResolver.forVisionTasks(...) resolves
VisionFilesetResolved ==
  /\ vision = "forVisionTasks"
  /\ vision' = "createFromOptions"
  /\ UNCHANGED <<lifecycle, videoRef, sceneRef, aspect, resizeListener,
                 handLandmarkerRef, camera, getUserMediaCalls, errorLog, requestRef,
                 rafQueue, videoTime, lastTimeRef, physicsState, sphere, loading,
                 handData, ticks, last, published, run, probe>>

\* await HandLandmarker.createFromOptions(...) resolves
VisionCreated ==
  /\ vision = "createFromOptions"
  /\ vision' = "done"
  /\ handLandmarkerRef' = "landmarker"
  /\ UNCHANGED <<lifecycle, videoRef, sceneRef, aspect, resizeListener, camera,
                 getUserMediaCalls, errorLog, requestRef, rafQueue, videoTime,
                 lastTimeRef, physicsState, sphere, loading, handData, ticks, last,
                 published, run, probe>>

\* either await of initVision rejects: nothing catches it
VisionRejected ==
  /\ vision \in {"forVisionTasks", "createFromOptions"}
  /\ vision' = "rejected"
  /\ UNCHANGED <<lifecycle, videoRef, sceneRef, aspect, resizeListener,
                 handLandmarkerRef, camera, getUserMediaCalls, errorLog, requestRef,
                 rafQueue, videoTime, lastTimeRef, physicsState, sphere, loading,
                 handData, ticks, last, published, run, probe>>

\* await getUserMedia(...) resolves: the stream is attached and onloadeddata
\* installed if the video element is still referenced
CameraResolved ==
  /\ camera = "getUserMedia"
  /\ camera' = IF videoRef # "null" THEN "waitLoaded" ELSE "noVideo"
  /\ UNCHANGED <<lifecycle, videoRef, sceneRef, aspect, resizeListener,
                 handLandmarkerRef, vision, getUserMediaCalls, errorLog, requestRef,
                 rafQueue, videoTime, lastTimeRef, physicsState, sphere, loading,
                 handData, ticks, last, published, run, probe>>

\* a catch block that logs and starts the loop all the same
CameraRejected_startsLoop ==
  /\ camera = "getUserMedia"
  /\ camera' = "failed"
  /\ errorLog' = errorLog + 1
  /\ requestRef' = 1
  /\ rafQueue' = {1}
  /\ UNCHANGED <<lifecycle, videoRef, sceneRef, aspect, resizeListener,
                 handLandmarkerRef, vision, getUserMediaCalls, videoTime,
                 lastTimeRef, physicsState, sphere, loading, handData, ticks, last,
                 published, run, probe>>

\* await getUserMedia(...) rejects: catch (e) { console.error(...) }
CameraRejected ==
  /\ camera = "getUserMedia"
  /\ camera' = "failed"
  /\ errorLog' = errorLog + 1
  /\ UNCHANGED <<lifecycle, videoRef, sceneRef, aspect, resizeListener,
                 handLandmarkerRef, vision, getUserMediaCalls, requestRef, rafQueue,
                 videoTime, lastTimeRef, physicsState, sphere, loading, handData,
                 ticks, last, published, run, probe>>

\* handleResize, called by the window while it is registered
Resize ==
  /\ resizeListener
  /\ \E a \in Aspects \ {aspect} : aspect' = a
  /\ UNCHANGED <<lifecycle, videoRef, sceneRef, resizeListener, handLandmarkerRef,
                 vision, camera, getUserMediaCalls, errorLog, requestRef, rafQueue,
                 videoTime, lastTimeRef, physicsState, sphere, loading, handData,
                 ticks, last, published, run, probe>>

\* the effect's cleanup, and React detaching the element refs of the
\* unmounted component (videoRef.current becomes null)
Unmount ==
  /\ lifecycle = "mounted"
  /\ lifecycle' = "unmounted"
  /\ resizeListener' = FALSE
  /\ rafQueue' = IF requestRef # 0 THEN rafQueue \ {requestRef} ELSE rafQueue
  /\ videoRef' = "null"
  /\ UNCHANGED <<sceneRef, aspect, handLandmarkerRef, vision, camera,
                 getUserMediaCalls, errorLog, requestRef, videoTime, lastTimeRef,
                 physicsState, sphere, loading, handData, ticks, last, published,
                 run, probe>>

(***************************************************************************)
(* The main loop.                                                          *)
(***************************************************************************)
\* a vision step that runs the detector on every frame, new or not
processVision_everyFrame(fresh, results, asp) ==
  IF Len(results) > 0
    THEN IF Len(results) = 2
           THEN LET h1 == results[1]
                    h2 == results[2]
                    cx == RDiv(RAdd(h1[9].x, h2[9].x), R(2))
                    cy == RDiv(RAdd(h1[9].y, h2[9].y), R(2))
                    dist == dist2D(h1[9], h2[9])
                IN  [isPresent |-> TRUE,
                     trackingMode |-> "DUAL",
                     targetPos |-> mapScreenToWorld(cx, cy, R(0), asp),
                     targetSplit |->
                       RMax(R(0), RMin(R(1), RDiv(RSub(dist, Rat(1, 10)), Rat(5, 10)))),
                     targetGrip |->
                       RDiv(RAdd(calculateGrip(h1), calculateGrip(h2)), R(2))]
           ELSE LET h1 == results[1]
                IN  [isPresent |-> TRUE,
                     trackingMode |-> "SINGLE",
                     targetPos |-> mapScreenToWorld(h1[9].x, h1[9].y, R(0), asp),
                     targetSplit |-> R(0),
                     targetGrip |-> calculateGrip(h1)]
    ELSE [isPresent |-> FALSE,
          trackingMode |-> "NONE",
          targetPos |-> Origin,
          targetSplit |-> R(0),
          targetGrip |-> R(0)]

\* 1. PROCESS VISION: the locals targetPos, targetGrip, targetSplit,
\* isPresent and trackingMode once the vision step is over; fresh says that
\* video.currentTime differs from lastTimeRef, results is what
\* detectForVideo returns then
processVision(fresh, results, asp) ==
  IF fresh /\ Len(results) > 0
    THEN IF Len(results) = 2
           THEN LET h1 == results[1]
                    h2 == results[2]
                    cx == RDiv(RAdd(h1[9].x, h2[9].x), R(2))
                    cy == RDiv(RAdd(h1[9].y, h2[9].y), R(2))
                    dist == dist2D(h1[9], h2[9])
                IN  [isPresent |-> TRUE,
                     trackingMode |-> "DUAL",
                     targetPos |-> mapScreenToWorld(cx, cy, R(0), asp),
                     targetSplit |->
                       RMax(R(0), RMin(R(1), RDiv(RSub(dist, Rat(1, 10)), Rat(5, 10)))),
                     targetGrip |->
                       RDiv(RAdd(calculateGrip(h1), calculateGrip(h2)), R(2))]
           ELSE LET h1 == results[1]
                IN  [isPresent |-> TRUE,
                     trackingMode |-> "SINGLE",
                     targetPos |-> mapScreenToWorld(h1[9].x, h1[9].y, R(0), asp),
                     targetSplit |-> R(0),
                     targetGrip |-> calculateGrip(h1)]
    ELSE [isPresent |-> FALSE,
          trackingMode |-> "NONE",
          targetPos |-> Origin,
          targetSplit |-> R(0),
          targetGrip |-> R(0)]

\* smoothing that resets the state at once when the hand is lost
smoothPhysics_resetWhenLost(state, t) ==
  IF ~t.isPresent
    THEN [state EXCEPT !.position = Origin, !.gripStrength = R(0),
                       !.splitFactor = R(0)]
    ELSE [state EXCEPT !.position = lerp(@, t.targetPos, SMOOTHING_FACTOR),
                       !.gripStrength = smooth(@, t.targetGrip),
                       !.splitFactor = smooth(@, t.targetSplit)]

\* 2. SMOOTH PHYSICS (Lerp)
smoothPhysics(state, t) ==
  LET targetPos == IF ~t.isPresent THEN Origin ELSE t.targetPos
  IN  [state EXCEPT !.position = lerp(@, targetPos, SMOOTHING_FACTOR),
                    !.gripStrength = smooth(@, t.targetGrip),
                    !.splitFactor = smooth(@, t.targetSplit)]

\* const rotSpeed = 0.005 + (state.gripStrength * 0.05) + (state.splitFactor * 0.02)
rotSpeed(state) ==
  RAdd(RAdd(Rat(5, 1000), RMul(state.gripStrength, Rat(5, 100))),
       RMul(state.splitFactor, Rat(2, 100)))

\* the gesture of a tick that tracks a hand
gestureOf(state) ==
  IF RLt(Rat(3, 10), state.splitFactor) THEN "SPLIT"
  ELSE IF RLt(Rat(5, 10), state.gripStrength) THEN "GRIP"
  ELSE "HOVER"

\* 4. SYNC UI: the argument of setHandData applied to the previous snapshot
syncUI(prev, state, trackingMode) ==
  IF trackingMode # "NONE"
    THEN [gesture |-> gestureOf(state),
          position |-> [x |-> R(0), y |-> R(0)],
          worldPosition |-> [ref |-> "physicsState.position"],
          isPresent |-> TRUE,
          trackingMode |-> trackingMode,
          handSeparation |-> state.splitFactor,
          gripStrength |-> state.gripStrength,
          energyOutput |-> RDiv(RAdd(state.gripStrength, state.splitFactor), R(2))]
    ELSE [prev EXCEPT !.isPresent = FALSE]

\* the run of ticks with one target, after a tick that started from state
\* and had the targets t
nextRun(state, t) ==
  LET target == [position |-> t.targetPos, gripStrength |-> t.targetGrip,
                 splitFactor |-> t.targetSplit]
  IN  IF run.n > 0 /\ run.target = target
        THEN [run EXCEPT !.n = @ + 1]
        ELSE [n |-> 1, target |-> target,
              start |-> [position |-> state.position,
                         gripStrength |-> state.gripStrength,
                         splitFactor |-> state.splitFactor]]

\* a call of animate that tests the guard before it advances the time
animate_guardFirst(fired, currentTime, results) ==
  LET ticked == [physicsState EXCEPT !.time = RAdd(@, Rat(1, 100))]
      ready == handLandmarkerRef # "null" /\ videoRef # "null" /\ sceneRef # "null"
      fresh == currentTime # lastTimeRef
  IN  /\ ticks < MaxTicks
      /\ ticks' = ticks + 1
      /\ requestRef' = ticks + 1
      /\ rafQueue' = (rafQueue \ {fired}) \cup {ticks + 1}
      /\ videoTime' = currentTime
      /\ IF ~ready
           THEN /\ physicsState' = physicsState
                /\ last' = [NoLocals EXCEPT !.before = physicsState]
                /\ UNCHANGED <<lastTimeRef, sphere, handData, published, run>>
           ELSE \E locals \in {processVision(fresh, results, aspect)} :
                \E smoothed \in {smoothPhysics(ticked, locals)} :
                \E updated \in {[smoothed EXCEPT !.rotationSpeed = rotSpeed(smoothed)]} :
                \E snapshot \in {syncUI(handData, updated, locals.trackingMode)} :
                /\ physicsState' = updated
                /\ lastTimeRef' = currentTime
                /\ sphere' = [position |-> updated.position,
                              rotationY |-> RAdd(sphere.rotationY, updated.rotationSpeed),
                              rotationZ |-> RAdd(sphere.rotationZ,
                                                 RMul(updated.rotationSpeed, Rat(5, 10)))]
                /\ handData' = snapshot
                /\ last' = [ran |-> TRUE, detected |-> fresh,
                            isPresent |-> locals.isPresent,
                            trackingMode |-> locals.trackingMode,
                            targetPos |-> locals.targetPos,
                            targetGrip |-> locals.targetGrip,
                            targetSplit |-> locals.targetSplit,
                            before |-> physicsState]
                /\ published' = Append(published,
                                       [snap |-> snapshot,
                                        seen |-> ViewOf(snapshot, updated.position)])
                /\ run' = nextRun(physicsState, locals)

\* One call of animate.  fired is the frame whose callback this is (0 when
\* called from onloadeddata), currentTime is video.currentTime at the call
\* and results is what detectForVideo returns if it is called.
animate(fired, currentTime, results) ==
  LET ticked == [physicsState EXCEPT !.time = RAdd(@, Rat(1, 100))]
      ready == handLandmarkerRef # "null" /\ videoRef # "null" /\ sceneRef # "null"
      fresh == currentTime # lastTimeRef
  IN  /\ ticks < MaxTicks
      /\ ticks' = ticks + 1
      /\ requestRef' = ticks + 1
      /\ rafQueue' = (rafQueue \ {fired}) \cup {ticks + 1}
      /\ videoTime' = currentTime
      /\ IF ~ready
           THEN /\ physicsState' = ticked
                /\ last' = [NoLocals EXCEPT !.before = physicsState]
                /\ UNCHANGED <<lastTimeRef, sphere, handData, published, run>>
           ELSE \E locals \in {processVision(fresh, results, aspect)} :
                \E smoothed \in {smoothPhysics(ticked, locals)} :
                \E updated \in {[smoothed EXCEPT !.rotationSpeed = rotSpeed(smoothed)]} :
                \E snapshot \in {syncUI(handData, updated, locals.trackingMode)} :
                /\ physicsState' = updated
                /\ lastTimeRef' = currentTime
                /\ sphere' = [position |-> updated.position,
                              rotationY |-> RAdd(sphere.rotationY, updated.rotationSpeed),
                              rotationZ |-> RAdd(sphere.rotationZ,
                                                 RMul(updated.rotationSpeed, Rat(5, 10)))]
                /\ handData' = snapshot
                /\ last' = [ran |-> TRUE, detected |-> fresh,
                            isPresent |-> locals.isPresent,
                            trackingMode |-> locals.trackingMode,
                            targetPos |-> locals.targetPos,
                            targetGrip |-> locals.targetGrip,
                            targetSplit |-> locals.targetSplit,
                            before |-> physicsState]
                /\ published' = Append(published,
                                       [snap |-> snapshot,
                                        seen |-> ViewOf(snapshot, updated.position)])
                /\ run' = nextRun(physicsState, locals)

\* videoRef.current.onloadeddata: setLoading(false) (React drops the update
\* of an unmounted component) and the first call of animate
OnLoadedData ==
  /\ camera = "waitLoaded"
  /\ camera' = "loaded"
  /\ loading' = IF lifecycle = "mounted" THEN FALSE ELSE loading
  /\ \E currentTime \in {videoTime, videoTime + 1} : \E results \in Detections :
       animate(0, currentTime, results)
  /\ UNCHANGED <<lifecycle, videoRef, sceneRef, aspect, resizeListener,
                 handLandmarkerRef, vision, getUserMediaCalls, errorLog, probe>>

\* the browser runs a requested frame callback
Frame ==
  /\ \E fired \in rafQueue :
       \E currentTime \in {videoTime, videoTime + 1} : \E results \in Detections :
         animate(fired, currentTime, results)
  /\ UNCHANGED <<lifecycle, videoRef, sceneRef, aspect, resizeListener,
                 handLandmarkerRef, vision, camera, getUserMediaCalls, errorLog,
                 loading, probe>>

Next ==
  \/ Mount
  \/ VisionFilesetResolved
  \/ VisionCreated
  \/ VisionRejected
  \/ CameraResolved
  \/ CameraRejected
  \/ OnLoadedData
  \/ Frame
  \/ Resize
  \/ Unmount

Spec == Init /\ [][Next]_vars

(***************************************************************************)
(* Properties of the main loop.                                            *)
(***************************************************************************)
OneMinusFactor == RSub(R(1), SMOOTHING_FACTOR)

InUnit(a) == RLe(R(0), a) /\ RLe(a, R(1))

\* the classification the specification gives: first match wins
ClassifiedGesture(splitFactor, gripStrength, present) ==
  IF RLt(Rat(3, 10), splitFactor) THEN "SPLIT"
  ELSE IF RLt(Rat(5, 10), gripStrength) THEN "GRIP"
  ELSE IF present THEN "HOVER"
  ELSE "NONE"

\* C1: after every tick that passes the ready guard, the snapshot's gesture
\* is the first-match-wins classification of the current smoothed values
\* (SPLIT, else GRIP, else HOVER with a hand present, else NONE).
C1_GestureIsClassification ==
  last.ran =>
    handData.gesture = ClassifiedGesture(physicsState.splitFactor,
                                         physicsState.gripStrength, last.isPresent)

\* C2: what is seen through a published snapshot, worldPosition included,
\* stays what it was when the snapshot was published, whatever later ticks
\* do to the physics state.
C2_SnapshotsImmutable ==
  \A k \in DOMAIN published : View(published[k].snap) = published[k].seen

\* C3: after every tick that passes the ready guard, with or without a
\* hand, the snapshot's gripStrength and handSeparation equal the physics
\* state's gripStrength and splitFactor.
C3_SnapshotCopiesPhysics ==
  last.ran =>
    /\ handData.gripStrength = physicsState.gripStrength
    /\ handData.handSeparation = physicsState.splitFactor

\* C4: in every reachable state the smoothed gripStrength and splitFactor
\* lie in [0, 1].
C4_SmoothedInUnitInterval ==
  /\ InUnit(physicsState.gripStrength)
  /\ InUnit(physicsState.splitFactor)

\* a tick tracked two hands, one of them beyond the open end of the grip
\* range, and both smoothed values have left 0
C4_Witness ==
  /\ last.ran
  /\ last.trackingMode = "DUAL"
  /\ RLt(R(0), physicsState.gripStrength)
  /\ RLt(R(0), physicsState.splitFactor)
  /\ RLt(physicsState.gripStrength, R(1))

Scaled(v, f) == [x |-> RMul(v.x, f), y |-> RMul(v.y, f), z |-> RMul(v.z, f)]

\* C5: a tick without a hand has the origin and 0, 0 as targets, publishes
\* isPresent = false, and multiplies the smoothed position, gripStrength and
\* splitFactor by 1 - SMOOTHING_FACTOR; over n such ticks in a row they are
\* (1 - SMOOTHING_FACTOR)^n times what they were, so they shrink towards the
\* origin and 0 without being reset.
C5_NoHandDecay ==
  (last.ran /\ ~last.isPresent) =>
    /\ last.targetPos = Origin
    /\ last.targetGrip = R(0)
    /\ last.targetSplit = R(0)
    /\ handData.isPresent = FALSE
    /\ physicsState.gripStrength = RMul(last.before.gripStrength, OneMinusFactor)
    /\ physicsState.splitFactor = RMul(last.before.splitFactor, OneMinusFactor)
    /\ physicsState.position = Scaled(last.before.position, OneMinusFactor)
    /\ physicsState.position = Scaled(run.start.position, RPow(OneMinusFactor, run.n))
    /\ physicsState.gripStrength =
         RMul(run.start.gripStrength, RPow(OneMinusFactor, run.n))
    /\ physicsState.splitFactor =
         RMul(run.start.splitFactor, RPow(OneMinusFactor, run.n))

\* two ticks without a hand in a row, started away from the origin with
\* gripStrength and splitFactor above 0
C5_Witness ==
  /\ last.ran
  /\ ~last.isPresent
  /\ run.n = 2
  /\ run.start.position # Origin
  /\ RLt(R(0), run.start.gripStrength)
  /\ RLt(R(0), run.start.splitFactor)
  /\ RLt(R(0), physicsState.gripStrength)

\* value is n ticks of smoothing towards target away from start
Geometric(value, start, target, n) ==
  RSub(value, target) = RMul(RPow(OneMinusFactor, n), RSub(start, target))

\* the step from before to value neither moved away from target nor past it
TowardsTarget(before, value, target) ==
  /\ RLe(RAbs(RSub(value, target)), RAbs(RSub(before, target)))
  /\ RLe(before, target) => RLe(value, target)
  /\ RLe(target, before) => RLe(target, value)

\* C6: over n ticks in a row with one target T, each smoothed scalar obeys
\* state_n - T = (1 - SMOOTHING_FACTOR)^n * (state_0 - T), and no tick moves
\* a scalar away from its target or past it.
C6_GeometricConvergence ==
  (last.ran /\ run.n > 0) =>
    /\ Geometric(physicsState.gripStrength, run.start.gripStrength,
                 run.target.gripStrength, run.n)
    /\ Geometric(physicsState.splitFactor, run.start.splitFactor,
                 run.target.splitFactor, run.n)
    /\ Geometric(physicsState.position.x, run.start.position.x,
                 run.target.position.x, run.n)
    /\ Geometric(physicsState.position.y, run.start.position.y,
                 run.target.position.y, run.n)
    /\ Geometric(physicsState.position.z, run.start.position.z,
                 run.target.position.z, run.n)
    /\ TowardsTarget(last.before.gripStrength, physicsState.gripStrength,
                     last.targetGrip)
    /\ TowardsTarget(last.before.splitFactor, physicsState.splitFactor,
                     last.targetSplit)
    /\ TowardsTarget(last.before.position.x, physicsState.position.x,
                     last.targetPos.x)
    /\ TowardsTarget(last.before.position.y, physicsState.position.y,
                     last.targetPos.y)
    /\ TowardsTarget(last.before.position.z, physicsState.position.z,
                     last.targetPos.z)

\* three ticks in a row tracked the same two hands, so that position,
\* gripStrength and splitFactor all had a target they did not start at
C6_Witness ==
  /\ last.ran
  /\ run.n = 3
  /\ last.trackingMode = "DUAL"
  /\ run.target.gripStrength # run.start.gripStrength
  /\ run.target.splitFactor # run.start.splitFactor
  /\ run.target.position # run.start.position

\* C8: once the component is unmounted, animate runs no more and the
\* physics state is not written any more.
C8_NoTickAfterUnmount ==
  [][lifecycle = "unmounted" => (ticks' = ticks /\ physicsState' = physicsState)]_vars

\* C9: once getUserMedia has failed, the error is logged once, animate has
\* never run, no frame is requested, the physics state is the initial one,
\* loading is still true and getUserMedia has been called once only.
C9_CameraFailureStopsLoop ==
  camera = "failed" =>
    /\ errorLog = 1
    /\ ticks = 0
    /\ requestRef = 0
    /\ rafQueue = {}
    /\ physicsState = InitialPhysics
    /\ loading = TRUE
    /\ getUserMediaCalls = 1

\* getUserMedia has failed while the hand detector became ready and the
\* component is still mounted
C9_Witness ==
  /\ camera = "failed"
  /\ handLandmarkerRef = "landmarker"
  /\ lifecycle = "mounted"

(***************************************************************************)
(* calculateGrip on its own: two hands are drawn, the function is applied  *)
(* to both.                                                                *)
(***************************************************************************)
\* offsets of landmark 9 from the wrist: hand scales 0.2 and 0.25
GripScales == {<<0, -20>>, <<15, -20>>}

\* fingertip offsets from the wrist, with the average distances 0.10, 0.12,
\* 0.24, 0.352, 0.36, 0.40 and 0.45
GripTips ==
  { Tips(10), Tips(12), Tips(24),
    <<<<-18, -24>>, <<0, -36>>, <<0, -40>>, <<18, -24>>, <<24, -32>>>>,
    Tips(36), Tips(40), Tips(45) }

GripHands == {Hand(50, 80, sc, tp) : sc \in GripScales, tp \in GripTips}

InitGrip ==
  /\ ComponentInit
  /\ probe \in [kind : {"grip"}, a : GripHands, b : GripHands, out : {<<>>}]

ApplyGrip ==
  /\ probe.kind = "grip"
  /\ probe.out = <<>>
  /\ probe' = [probe EXCEPT !.out = <<calculateGrip(probe.a), calculateGrip(probe.b)>>]
  /\ UNCHANGED componentVars

NextGrip == ApplyGrip

SpecGrip == InitGrip /\ [][NextGrip]_vars

\* avgDist / scaleBase of a hand
GripRatio(landmarks) == RDiv(avgDist(landmarks), scaleBase(landmarks))

\* C7: for a hand with scaleBase > 0 calculateGrip returns
\* clamp(1 - (avgDist/scaleBase - 0.6)/1.2, 0, 1): a value in [0, 1], not
\* larger for the hand with the larger avgDist when two hands have the same
\* scaleBase, 0 from the ratio 1.8 on and 1 up to the ratio 0.6.
C7_GripFormula ==
  (probe.kind = "grip" /\ probe.out # <<>>) =>
    LET ratioA == GripRatio(probe.a)
        gripA == probe.out[1]
        gripB == probe.out[2]
    IN  /\ RLt(R(0), scaleBase(probe.a))
        /\ gripA = RMax(R(0), RMin(R(1), RSub(R(1), RDiv(RSub(ratioA, Rat(6, 10)),
                                                         Rat(12, 10)))))
        /\ InUnit(gripA)
        /\ (scaleBase(probe.a) = scaleBase(probe.b)
              /\ RLe(avgDist(probe.a), avgDist(probe.b))) => RLe(gripB, gripA)
        /\ RLe(Rat(18, 10), ratioA) => gripA = R(0)
        /\ RLe(ratioA, Rat(6, 10)) => gripA = R(1)

\* calculateGrip was applied to two hands of one scale: the first strictly
\* between open and closed, the second with the larger avgDist, exactly at
\* the open end of the range
C7_Witness ==
  /\ probe.kind = "grip"
  /\ probe.out # <<>>
  /\ scaleBase(probe.a) = scaleBase(probe.b)
  /\ RLt(avgDist(probe.a), avgDist(probe.b))
  /\ RLt(R(0), probe.out[1])
  /\ RLt(probe.out[1], R(1))
  /\ GripRatio(probe.b) = Rat(18, 10)
  /\ probe.out[2] = R(0)

(***************************************************************************)
(* The particle placement of animate (PARTICLE VORTEX PHYSICS) on its own. *)
(* Math.sin and Math.cos are modelled on [0, 8) by linear interpolation    *)
(* between their values, to two decimals, at the multiples of 0.5.         *)
(***************************************************************************)
SinTable ==
  <<0, 48, 84, 100, 91, 60, 14, -35, -76, -98, -96, -71, -28, 22, 66, 94, 99>>

CosTable ==
  <<100, 88, 54, 7, -42, -80, -99, -94, -65, -21, 28, 71, 96, 98, 75, 35, -15>>

\* the table interpolated at a, 0 <= a < 8
Interpolate(table, a) ==
  LET twice == RMul(a, R(2))
      k == twice.n \div twice.d
      frac == RSub(twice, R(k))
  IN  RAdd(Rat(table[k + 1], 100),
           RMul(frac, Rat(table[k + 2] - table[k + 1], 100)))

Sin(a) == Interpolate(SinTable, a)

Cos(a) == Interpolate(CosTable, a)

\* const compression = 1.0 - (state.gripStrength * CONFIG.COMPRESSION_FACTOR)
compression(state) == RSub(R(1), RMul(state.gripStrength, COMPRESSION_FACTOR))

\* const visualScale = compression * (1 + state.splitFactor * 2)
visualScale(state) ==
  RMul(compression(state), RAdd(R(1), RMul(state.splitFactor, R(2))))

\* placement that enters the vortex mode from splitFactor = 0.1 on
particleTarget_vortexAtThreshold(state, p, i) ==
  LET time == state.time
      angle == RAdd(RMul(time, p.speed), RMul(R(i), Rat(1, 10)))
      radius == RMul(RMul(SPHERE_RADIUS, visualScale(state)),
                     RAdd(R(1), RMul(state.splitFactor, R(4))))
      noiseX == RMul(RMul(Sin(RAdd(RMul(time, R(2)), R(i))), state.splitFactor), R(2))
      noiseY == RMul(RMul(Cos(RAdd(RMul(time, R(3)), R(i))), state.splitFactor), R(2))
      noiseZ == RMul(RMul(Sin(RAdd(RMul(time, Rat(15, 10)), R(i))), state.splitFactor),
                     R(2))
  IN  IF RLe(Rat(1, 10), state.splitFactor)
        THEN [x |-> RAdd(RMul(Cos(angle), radius), noiseX),
              y |-> RAdd(RMul(p.basePos.y, compression(state)), noiseY),
              z |-> RAdd(RMul(Sin(angle), radius), noiseZ)]
        ELSE [x |-> RMul(p.basePos.x, compression(state)),
              y |-> RMul(p.basePos.y, compression(state)),
              z |-> RMul(p.basePos.z, compression(state))]

\* (tx, ty, tz) of particle i, whose record is p: the position given to
\* dummy.position.set
particleTarget(state, p, i) ==
  LET time == state.time
      angle == RAdd(RMul(time, p.speed), RMul(R(i), Rat(1, 10)))
      radius == RMul(RMul(SPHERE_RADIUS, visualScale(state)),
                     RAdd(R(1), RMul(state.splitFactor, R(4))))
      noiseX == RMul(RMul(Sin(RAdd(RMul(time, R(2)), R(i))), state.splitFactor), R(2))
      noiseY == RMul(RMul(Cos(RAdd(RMul(time, R(3)), R(i))), state.splitFactor), R(2))
      noiseZ == RMul(RMul(Sin(RAdd(RMul(time, Rat(15, 10)), R(i))), state.splitFactor),
                     R(2))
  IN  IF RLt(Rat(1, 10), state.splitFactor)
        THEN [x |-> RAdd(RMul(Cos(angle), radius), noiseX),
              y |-> RAdd(RMul(p.basePos.y, compression(state)), noiseY),
              z |-> RAdd(RMul(Sin(angle), radius), noiseZ)]
        ELSE [x |-> RMul(p.basePos.x, compression(state)),
              y |-> RMul(p.basePos.y, compression(state)),
              z |-> RMul(p.basePos.z, compression(state))]

\* the particles 0, 1 and 2 of mesh.userData.particles: basePos as initThree
\* computes it (phi = acos(-1 + 2i/1200), theta = sqrt(1200 pi) phi), to
\* three decimals
ParticleBase ==
  <<[x |-> R(0), y |-> R(0), z |-> Rat(-15, 10)],
    [x |-> Rat(57, 1000), y |-> Rat(65, 1000), z |-> Rat(-1497, 1000)],
    [x |-> Rat(100, 1000), y |-> Rat(-71, 1000), z |-> Rat(-1495, 1000)]>>

ParticleIndices == {0, 1, 2}

\* speed: 0.5 + Math.random()
ParticleSpeeds == {Rat(1, 2), R(1), Rat(5, 4)}

\* values of physicsState the placement is tried on
ProbeGrips == {R(0), Rat(1, 2), R(1)}
ProbeSplits == {R(0), Rat(1, 10), Rat(1, 5), R(1)}
ProbeTimes == {R(0), Rat(1, 100), Rat(1, 2), R(1)}

InitParticles ==
  /\ ComponentInit
  /\ \E g \in ProbeGrips, sf \in ProbeSplits, tm \in ProbeTimes,
        i \in ParticleIndices, sp \in ParticleSpeeds :
       probe = [kind |-> "particle",
                state |-> [InitialPhysics EXCEPT !.gripStrength = g,
                                                 !.splitFactor = sf, !.time = tm],
                i |-> i,
                p |-> [basePos |-> ParticleBase[i + 1], speed |-> sp],
                out |-> <<>>]

PlaceParticle ==
  /\ probe.kind = "particle"
  /\ probe.out = <<>>
  /\ probe' = [probe EXCEPT !.out = <<particleTarget(probe.state, probe.p, probe.i)>>]
  /\ UNCHANGED componentVars

NextParticles == PlaceParticle

SpecParticles == InitParticles /\ [][NextParticles]_vars

\* C10: with splitFactor <= 0.1 a particle is placed at basePos * compression,
\* compression = 1 - gripStrength * COMPRESSION_FACTOR, and the same place
\* results at every other time and for every other speed and index; the
\* orbit radius, angle and jitter enter only with splitFactor > 0.1.
C10_SurfaceMode ==
  (probe.kind = "particle" /\ probe.out # <<>>
     /\ RLe(probe.state.splitFactor, Rat(1, 10))) =>
    LET c == RSub(R(1), RMul(probe.state.gripStrength, COMPRESSION_FACTOR))
    IN  /\ probe.out[1] = Scaled(probe.p.basePos, c)
        /\ \A tm \in ProbeTimes, sp \in ParticleSpeeds, j \in ParticleIndices :
             particleTarget([probe.state EXCEPT !.time = tm],
                            [probe.p EXCEPT !.speed = sp], j) = probe.out[1]

\* a particle away from the axis was placed at time 1 with splitFactor
\* exactly 0.1 and a grip that compresses the sphere
C10_Witness ==
  /\ probe.kind = "particle"
  /\ probe.out # <<>>
  /\ probe.state.splitFactor = Rat(1, 10)
  /\ probe.state.gripStrength = R(1)
  /\ probe.state.time = R(1)
  /\ probe.i = 2
  /\ probe.out[1] = Scaled(probe.p.basePos, Rat(3, 10))

(***************************************************************************)
(* 3. UPDATE VISUALS of animate on its own: the scene objects that         *)
(* initThree creates, and the update applied to them frame after frame.    *)
(***************************************************************************)
\* number of visual updates applied to one scene
MaxUpdates == 2

\* the Containment Field, the Energy Source and the instanced particles as
\* initThree leaves them; colours as the components of the hex literals
InitialScene ==
  [sphere |-> [position |-> Origin, rotationY |-> R(0), rotationZ |-> R(0),
               scale |-> R(1),
               color |-> [r |-> R(0), g |-> Rat(243, 255), b |-> R(1)],
               opacity |-> Rat(3, 10)],
   core |-> [position |-> Origin, scale |-> R(1),
             color |-> [r |-> R(1), g |-> R(1), b |-> R(1)]],
   mesh |-> [position |-> Origin,
             instances |-> [i \in ParticleIndices |->
                              [position |-> ParticleBase[i + 1], scale |-> R(1)]]]]

\* the speeds of the particles 0, 1 and 2
SceneSpeeds == <<Rat(1, 2), R(1), Rat(5, 4)>>

\* lines 333-413: the scene after the update, given the scene before it and
\* physicsState.current
updateVisuals(scene, state) ==
  LET r == RMin(R(1), RAdd(state.gripStrength, state.splitFactor))
      g == RMax(R(0), RSub(R(1), RMul(state.gripStrength, Rat(5, 10))))
      heat == RSub(R(1), state.gripStrength)
  IN  [sphere |->
         [position |-> state.position,
          rotationY |-> RAdd(scene.sphere.rotationY, state.rotationSpeed),
          rotationZ |-> RAdd(scene.sphere.rotationZ,
                             RMul(state.rotationSpeed, Rat(5, 10))),
          scale |-> visualScale(state),
          color |-> [r |-> RMul(r, Rat(5, 10)), g |-> g, b |-> R(1)],
          opacity |-> RMax(R(0), RSub(Rat(3, 10), state.splitFactor))],
       core |->
         [position |-> state.position,
          scale |-> RMul(visualScale(state), Rat(3, 10)),
          color |-> [r |-> R(1), g |-> heat, b |-> heat]],
       mesh |->
         [position |-> state.position,
          instances |->
            [i \in ParticleIndices |->
               [position |-> particleTarget(state,
                                            [basePos |-> ParticleBase[i + 1],
                                             speed |-> SceneSpeeds[i + 1]], i),
                scale |-> RAdd(R(1), RMul(state.gripStrength, R(2)))]]]]

\* positions of physicsState the update is tried on
ProbePositions == {Origin, [x |-> R(1), y |-> Rat(-1, 2), z |-> R(0)]}

InitVisuals ==
  /\ ComponentInit
  /\ \E pos \in ProbePositions, g \in ProbeGrips, sf \in ProbeSplits,
        tm \in {R(0), Rat(1, 2)} :
       \E state \in {[InitialPhysics EXCEPT !.position = pos, !.gripStrength = g,
                                            !.splitFactor = sf, !.time = tm]} :
         probe = [kind |-> "visual",
                  state |-> [state EXCEPT !.rotationSpeed = rotSpeed(state)],
                  scene |-> InitialScene,
                  n |-> 0]

\* lines 326-413 of one frame: state.rotationSpeed = rotSpeed, then the
\* sphere, core and particle update
UpdateVisuals ==
  /\ probe.kind = "visual"
  /\ probe.n < MaxUpdates
  /\ \E state \in {[probe.state EXCEPT !.rotationSpeed = rotSpeed(probe.state)]} :
       probe' = [probe EXCEPT !.state = state,
                              !.scene = updateVisuals(probe.scene, state),
                              !.n = @ + 1]
  /\ UNCHANGED componentVars

NextVisuals == UpdateVisuals

SpecVisuals == InitVisuals /\ [][NextVisuals]_vars

\* C11: a visual update that starts from a scene already updated from the
\* same PhysicsState leaves every scene object as it was: same position,
\* scale, rotation, colour and opacity.
C11_VisualsIdempotent ==
  [][(probe.kind = "visual" /\ probe.n >= 1 /\ probe'.n = probe.n + 1
        /\ probe'.state = probe.state)
       => probe'.scene = probe.scene]_vars

(***************************************************************************)
(* Frames of the video and readiness of the detector.                      *)
(***************************************************************************)
\* the tick about to be taken runs past the guard of animate
ReadyTick ==
  /\ ticks' = ticks + 1
  /\ handLandmarkerRef # "null"
  /\ videoRef # "null"
  /\ sceneRef # "null"

\* C12: a tick past the guard on which video.currentTime equals lastTimeRef
\* does not call the detector and has the locals of a no-hand tick (origin,
\* grip 0, split 0, not present, mode NONE), whatever a detection would
\* return and whatever the tick before found; position, gripStrength and
\* splitFactor are multiplied by 1 - SMOOTHING_FACTOR, lastTimeRef stays and
\* the snapshot is the previous one with isPresent = false.
C12_StaleFrameIsNoHandTick ==
  [][(ReadyTick /\ videoTime' = lastTimeRef) =>
       /\ last'.ran /\ ~last'.detected
       /\ ~last'.isPresent /\ last'.trackingMode = "NONE"
       /\ last'.targetPos = Origin
       /\ last'.targetGrip = R(0) /\ last'.targetSplit = R(0)
       /\ physicsState'.position = Scaled(physicsState.position, OneMinusFactor)
       /\ physicsState'.gripStrength = RMul(physicsState.gripStrength, OneMinusFactor)
       /\ physicsState'.splitFactor = RMul(physicsState.splitFactor, OneMinusFactor)
       /\ lastTimeRef' = lastTimeRef
       /\ handData' = [handData EXCEPT !.isPresent = FALSE]]_vars

\* the tick before tracked a hand and published it, and the last tick, on
\* the same video frame, shrank a positive grip and published isPresent false
C12_Witness ==
  /\ Len(published) >= 2
  /\ published[Len(published) - 1].snap.isPresent
  /\ last.ran /\ ~last.detected
  /\ videoTime = lastTimeRef
  /\ RLt(R(0), last.before.gripStrength)
  /\ last.before.position # Origin
  /\ physicsState.gripStrength = RMul(last.before.gripStrength, OneMinusFactor)
  /\ ~handData.isPresent

\* C13: every call of animate adds exactly 0.01 to physicsState.time and
\* requests a new frame, whose id it stores in requestRef; a call made while
\* handLandmarkerRef.current is null runs no detection and leaves position,
\* gripStrength, splitFactor, rotationSpeed, lastTimeRef and the snapshot as
\* they were; a detection runs only once createFromOptions has resolved.
C13_TickAdvancesTime ==
  [][ticks' = ticks + 1 =>
       /\ physicsState'.time = RAdd(physicsState.time, Rat(1, 100))
       /\ requestRef' \in rafQueue' \ rafQueue
       /\ handLandmarkerRef = "null" =>
            /\ ~last'.ran /\ ~last'.detected
            /\ physicsState' = [physicsState EXCEPT !.time = physicsState'.time]
            /\ lastTimeRef' = lastTimeRef
            /\ handData' = handData
            /\ published' = published
       /\ last'.detected => (vision = "done" /\ handLandmarkerRef = "landmarker")]_vars

\* the camera delivered its first frame before the detector was created:
\* the first call of animate only advanced the time, the second, after
\* createFromOptions resolved, ran the detector and tracked a hand
C13_Witness ==
  /\ lifecycle = "mounted"
  /\ ticks = 2
  /\ Len(published) = 1
  /\ physicsState.time = Rat(2, 100)
  /\ last.detected /\ last.isPresent
  /\ last.before = [InitialPhysics EXCEPT !.time = Rat(1, 100)]
  /\ requestRef \in rafQueue

====
